---- MODULE Spec2Model ----
(***************************************************************************)
(* Model of the per-node NDN forwarding core, src/model/ndn-l3-protocol.cc *)
(* (NdnL3Protocol): the face registry (AddFace, RemoveFace, GetFace,       *)
(* GetNFaces), the dispatcher (Receive) and the Interest, Data and NACK    *)
(* pipelines (OnInterest, OnDataDelayed, OnData, GiveUpInterest, OnNack).  *)
(*                                                                         *)
(* One packet is processed to completion before the next is admitted (the  *)
(* simulator is single threaded and event driven), so each handler is one  *)
(* atomic action.  The PIT entry, the FIB entry, the content store and the *)
(* forwarding strategy are collaborators whose code is not in the file;    *)
(* their operations are modelled from their contract and are marked so in  *)
(* MODEL_MAP.json.                                                         *)
(***************************************************************************)
EXTENDS Integers, Sequences, FiniteSets

\* ------------------------------------------------------------------ bounds
NumFaces == 4
NumNames == 2
NumNonces == 2
\* FIB prefixes; name n falls under prefix ((n - 1) % NumPrefixes) + 1.
NumPrefixes == 1
\* AddFace is called at most this many times (caps m_faceCounter).
MaxFaceCounter == 2
\* IncreaseAllowedRetxCount is applied at most this many times per PIT entry.
MaxRetx == 1
\* Largest RTT sample (now minus send time) a Data arrival measures.
MaxRttSample == 1
\* Faces routing has put into a FIB entry of a node in service (InitTraffic).
MaxUpstream == 2
\* Capacity of the PIT (its maximum size attribute).
PitCapacity == 1

Faces == 1 .. NumFaces
Names == 1 .. NumNames
Nonces == 1 .. NumNonces
Prefixes == 1 .. NumPrefixes
NoId == -1

VARIABLES
  m_faces,                \* bag of registered faces: face -> occurrences in the list
  m_faceCounter,          \* next id AddFace hands out
  faceId,                 \* face -> id set by SetId, NoId before
  handler,                \* faces whose receive callback is NdnL3Protocol::Receive
  pit,                    \* name -> PIT entry
  fib,                    \* prefix -> (face -> status), the FIB entry's face metrics
  rtt,                    \* prefix -> (face -> smoothed RTT estimate, 0 before any)
  cs,                     \* names held by the content store
  received,               \* history: the (name, nonce) pairs of the Interests received
  m_nacksEnabled,         \* configuration: NACK sub-protocol
  m_cacheUnsolicitedData, \* configuration: cache unsolicited Data
  sent,                   \* packets handed to faces by the last operation, in order
  last,                   \* what the last operation was and what it reported
  fatal                   \* a fatal assertion has fired

vars == <<m_faces, m_faceCounter, faceId, handler, pit, fib, rtt, cs, received,
          m_nacksEnabled, m_cacheUnsolicitedData, sent, last, fatal>>

\* ----------------------------------------------------------------- helpers
RECURSIVE SetToSeq(_)
SetToSeq(S) ==
  IF S = {} THEN <<>>
  ELSE LET m == CHOOSE x \in S : \A y \in S : x <= y
       IN <<m>> \o SetToSeq(S \ {m})

\* One packet of the given kind to each face of fs, in face order.
RECURSIVE SendTo(_, _)
SendTo(fs, kind) ==
  IF fs = <<>> THEN <<>>
  ELSE <<[face |-> Head(fs), kind |-> kind]>> \o SendTo(Tail(fs), kind)

RECURSIVE Count(_, _, _)
Count(s, f, kind) ==
  IF s = <<>> THEN 0
  ELSE (IF Head(s).face = f /\ Head(s).kind = kind THEN 1 ELSE 0)
       + Count(Tail(s), f, kind)

SentTo(f) == {i \in 1 .. Len(sent) : sent[i].face = f}
Registered == {f \in Faces : m_faces[f] > 0}

\* --------------------------------------------------------------- PIT entry
NoEntry ==
  [present |-> FALSE, incoming |-> {}, outgoing |-> {}, inVain |-> {},
   retx |-> [f \in Faces |-> 0], nonces |-> {}, erased |-> FALSE, maxRetx |-> 0]

\* NdnPit::Create: a fresh entry, or none when the table is full.
PitSize == Cardinality({n \in Names : pit[n].present})
CanCreate == PitSize < PitCapacity
NewEntry == [NoEntry EXCEPT !.present = TRUE]

IsNonceSeen(e, nonce) == nonce \in e.nonces
AddSeenNonce(e, nonce) == [e EXCEPT !.nonces = @ \cup {nonce}]
AddIncoming(e, f) == [e EXCEPT !.incoming = @ \cup {f}]
RemoveIncoming(e, f) == [e EXCEPT !.incoming = @ \ {f}]
ClearIncoming(e) == [e EXCEPT !.incoming = {}]
ClearOutgoing(e) ==
  [e EXCEPT !.outgoing = {}, !.inVain = {}, !.retx = [f \in Faces |-> 0]]
\* A first send creates the outgoing-entry; a repeated send counts a retransmission
\* and is again awaited.
AddOutgoing(e, f) ==
  IF f \in e.outgoing
  THEN [e EXCEPT !.retx[f] = @ + 1, !.inVain = @ \ {f}]
  ELSE [e EXCEPT !.outgoing = @ \cup {f}]
SetWaitingInVain(e, f) == [e EXCEPT !.inVain = @ \cup {f}]
AreAllOutgoingInVain(e) == e.outgoing \subseteq e.inVain
RemoveAllReferencesToFace(e, f) ==
  [e EXCEPT !.incoming = @ \ {f}, !.outgoing = @ \ {f}, !.inVain = @ \ {f},
            !.retx[f] = 0]
\* The erased entry is kept for a pruning timeout; refreshing the lifetime of an
\* entry makes it a pending entry again.
MarkErased(e) == [e EXCEPT !.erased = TRUE]
UpdateLifetime(e) == [e EXCEPT !.erased = FALSE]
IncreaseAllowedRetxCount(e) == [e EXCEPT !.maxRetx = @ + 1]

\* --------------------------------------------------------------- FIB entry
\* The prefix of the FIB entry a name's PIT entry refers to (GetFibEntry).
PrefixOf(n) == ((n - 1) % NumPrefixes) + 1
GetFibEntry(n) == fib[PrefixOf(n)]
FibFaces(fe) == {f \in Faces : fe[f] # "none"}
UpdateStatus(fe, f, status) ==
  IF fe[f] = "none" THEN fe ELSE [fe EXCEPT ![f] = status]
\* The smoothed estimate: the first sample, then 7/8 of the old estimate plus 1/8
\* of the sample.
UpdateFaceRtt(re, fe, f, sample) ==
  IF fe[f] = "none" THEN re
  ELSE [re EXCEPT ![f] = IF @ = 0 THEN sample ELSE (7 * @ + sample) \div 8]

\* ----------------------------------------------------- forwarding strategy
\* Faces an Interest can be propagated to: FIB faces that are not red, other than
\* the arriving face, and not already used up in this retransmission cycle.
Eligible(e, fe, inFace) ==
  {f \in FibFaces(fe) :
     /\ fe[f] # "red"
     /\ f # inFace
     /\ (f \in e.outgoing => e.retx[f] < e.maxRetx)}

RECURSIVE AddOutgoingAll(_, _)
AddOutgoingAll(e, fs) ==
  IF fs = <<>> THEN e ELSE AddOutgoingAll(AddOutgoing(e, Head(fs)), Tail(fs))

PropagateInterest(e, fe, inFace) ==
  LET to == SetToSeq(Eligible(e, fe, inFace))
  IN [entry |-> AddOutgoingAll(e, to),
      sent |-> SendTo(to, "interest"),
      propagated |-> to # <<>>]

\* ------------------------------------------------------- what a step reports
NoLast ==
  [op |-> "none", face |-> 0, name |-> 0, drop |-> "none",
   isNew |-> FALSE, isDup |-> FALSE, isRetx |-> FALSE, hadOut |-> FALSE,
   hadIn |-> FALSE,        \* Data: the arriving face had an incoming-entry
   joined |-> 0,           \* Data: the face a duplicate registered one step before
   hit |-> FALSE, attempts |-> 0, propagated |-> FALSE, gaveUp |-> FALSE,
   gu |-> NoEntry]        \* the PIT entry handed to GiveUpInterest

\* ---------------------------------------------------------- GiveUpInterest
\* A give-up that forgets the outgoing set.
GiveUpInterestKeepsOutgoing(e) ==
  IF m_nacksEnabled
  THEN [entry |-> MarkErased(ClearIncoming(e)),
        sent |-> SendTo(SetToSeq(e.incoming), "nack-giveup")]
  ELSE [entry |-> e, sent |-> <<>>]

GiveUpInterest(e) ==
  IF m_nacksEnabled
  THEN [entry |-> MarkErased(ClearOutgoing(ClearIncoming(e))),
        sent |-> SendTo(SetToSeq(e.incoming), "nack-giveup")]
  ELSE [entry |-> e, sent |-> <<>>]

\* ----------------------------------------------------------- OnDataDelayed
\* A satisfaction that forgets the outgoing set.
OnDataDelayedKeepsOutgoing(e) ==
  [entry |-> IF e.incoming # {} THEN MarkErased(ClearIncoming(e)) ELSE e,
   sent |-> SendTo(SetToSeq(e.incoming), "data")]

\* A satisfaction that clears the entry without sending the Data.
OnDataDelayedSilent(e) ==
  [entry |-> IF e.incoming # {}
             THEN MarkErased(ClearOutgoing(ClearIncoming(e)))
             ELSE e,
   sent |-> <<>>]

\* The PIT entry e was found by name.
OnDataDelayed(e) ==
  [entry |-> IF e.incoming # {}
             THEN MarkErased(ClearOutgoing(ClearIncoming(e)))
             ELSE e,
   sent |-> SendTo(SetToSeq(e.incoming), "data")]

\* -------------------------------------------------------------- OnInterest
\* A nonce check that does not record the nonce.
CheckNonceForgets(e, nonce) ==
  [entry |-> e, isDuplicated |-> IsNonceSeen(e, nonce)]

\* The nonce check: an unseen nonce is recorded, a seen one makes a duplicate.
CheckNonce(e, nonce) ==
  IF ~IsNonceSeen(e, nonce)
  THEN [entry |-> AddSeenNonce(e, nonce), isDuplicated |-> FALSE]
  ELSE [entry |-> e, isDuplicated |-> TRUE]

\* An incoming-entry lookup that registers nobody.
FindOrAddIncomingOnlyFinds(e, inFace) ==
  [entry |-> e, isRetransmitted |-> inFace \in e.incoming]

\* A retransmission comes from a face that has an incoming-entry; any other face
\* gets its incoming-entry now.
FindOrAddIncoming(e, inFace) ==
  IF inFace \in e.incoming
  THEN [entry |-> e, isRetransmitted |-> TRUE]
  ELSE [entry |-> AddIncoming(e, inFace), isRetransmitted |-> FALSE]

\* A duplicate branch that ignores the NACK setting.
DuplicateBranchAlwaysNack(inFace) == <<[face |-> inFace, kind |-> "nack-loop"]>>

\* The duplicate branch: the packets it sends.
DuplicateBranch(inFace) ==
  IF m_nacksEnabled THEN <<[face |-> inFace, kind |-> "nack-loop"]>> ELSE <<>>

\* A suppression rule that does not exempt retransmissions.
SuppressedAlsoRetx(isNew, isRetransmitted) == ~isNew

\* The suppression rule, for a face without an outgoing-entry.
Suppressed(isNew, isRetransmitted) == ~isNew /\ ~isRetransmitted

\* A retry rule that does not ask whether the Interest is a retransmission.
TryAgainAlways(propagated, isRetransmitted) == ~propagated

\* Whether a failed propagation is tried once more.
TryAgain(propagated, isRetransmitted) == ~propagated /\ isRetransmitted

\* An outgoing-face branch that leaves the FIB alone.
OutFaceBranchKeepsStatus(n, inFace) == GetFibEntry(n)

\* The Interest came from a face it was sent to: the FIB entry afterwards.
OutFaceBranch(n, inFace) == UpdateStatus(GetFibEntry(n), inFace, "yellow")

\* The part of OnInterest after the duplicate check and the content store miss.
ForwardInterest(e2, inFace, n, rep) ==
  LET e3 == UpdateLifetime(e2)
      fe == IF rep.hadOut THEN OutFaceBranch(n, inFace) ELSE GetFibEntry(n)
  IN IF ~rep.hadOut /\ Suppressed(rep.isNew, rep.isRetx)
     THEN [entry |-> e3, fibEntry |-> fe, sent |-> <<>>,
           rep |-> [rep EXCEPT !.drop = "suppressed"]]
     ELSE
       LET p1 == PropagateInterest(e3, fe, inFace)
           retry == TryAgain(p1.propagated, rep.isRetx)
           p2 == IF retry
                 THEN PropagateInterest(IncreaseAllowedRetxCount(p1.entry), fe, inFace)
                 ELSE p1
           g == GiveUpInterest(p2.entry)
           rep1 == [rep EXCEPT !.attempts = IF retry THEN 2 ELSE 1]
       IN IF p2.propagated
          THEN [entry |-> p2.entry, fibEntry |-> fe,
                sent |-> IF retry THEN p1.sent \o p2.sent ELSE p1.sent,
                rep |-> [rep1 EXCEPT !.propagated = TRUE]]
          ELSE [entry |-> g.entry, fibEntry |-> fe, sent |-> g.sent,
                rep |-> [rep1 EXCEPT !.drop = "no-faces", !.gaveUp = TRUE,
                                     !.gu = p2.entry]]

\* A PIT-limit drop that tells the requester with a give-up NACK.
PitLimitNacks(inFace, n) ==
  [entry |-> pit[n],
   sent |-> IF m_nacksEnabled THEN <<[face |-> inFace, kind |-> "nack-giveup"]>>
            ELSE <<>>]

\* The PIT entry could not be created: the Interest is dropped.
PitLimit(inFace, n) == [entry |-> pit[n], sent |-> <<>>]

OnInterest(inFace, n, nonce) ==
  LET rep0 == [NoLast EXCEPT !.op = "interest", !.face = inFace, !.name = n]
  IN IF ~pit[n].present /\ ~CanCreate
     THEN [entry |-> PitLimit(inFace, n).entry, fibEntry |-> GetFibEntry(n),
           sent |-> PitLimit(inFace, n).sent,
           rep |-> [rep0 EXCEPT !.drop = "pit-limit"]]
     ELSE
       LET e0 == IF pit[n].present THEN pit[n] ELSE NewEntry
           isNew == e0.incoming = {} /\ e0.outgoing = {}
           c == CheckNonce(e0, nonce)
           hadOut == inFace \in c.entry.outgoing
           i == FindOrAddIncoming(c.entry, inFace)
           rep == [rep0 EXCEPT !.isNew = isNew, !.isDup = c.isDuplicated,
                               !.isRetx = i.isRetransmitted, !.hadOut = hadOut]
       IN IF c.isDuplicated
          THEN [entry |-> i.entry, fibEntry |-> GetFibEntry(n),
                sent |-> DuplicateBranch(inFace),
                rep |-> [rep EXCEPT !.drop = "duplicated"]]
          ELSE IF n \in cs
          THEN LET d == OnDataDelayed(i.entry)
               IN [entry |-> d.entry, fibEntry |-> GetFibEntry(n), sent |-> d.sent,
                   rep |-> [rep EXCEPT !.hit = TRUE]]
          ELSE ForwardInterest(i.entry, inFace, n, rep)

\* ------------------------------------------------------------------ OnData
\* An unsolicited-Data rule that ignores the caching setting.
UnsolicitedAlwaysCaches(n) == [store |-> cs \cup {n}, drop |-> "none"]

\* Data for a name without a PIT entry: cached only when unsolicited caching is
\* enabled, and reported dropped otherwise.
Unsolicited(n) ==
  IF m_cacheUnsolicitedData
  THEN [store |-> cs \cup {n}, drop |-> "none"]
  ELSE [store |-> cs, drop |-> "unsolicited"]

\* An outgoing-entry-missing rule that never caches.
OutgoingMissingNeverCaches(n) == cs

\* Data for a PIT entry in which the arriving face has no outgoing-entry: the
\* content store afterwards.
OutgoingMissing(n) == IF m_cacheUnsolicitedData THEN cs \cup {n} ELSE cs

\* A satisfaction that leaves the arriving face in the incoming set.
SatisfyPendingAll(e, inFace) ==
  IF e.incoming = {}
  THEN [entry |-> MarkErased(e), sent |-> <<>>]
  ELSE OnDataDelayed(e)

\* The end of OnData: the arriving face leaves the incoming set, then the entry is
\* marked erased if no face is left, and the faces left are satisfied otherwise.
SatisfyPending(e, inFace) ==
  LET e1 == RemoveIncoming(e, inFace)
  IN IF e1.incoming = {}
     THEN [entry |-> MarkErased(e1), sent |-> <<>>]
     ELSE OnDataDelayed(e1)

OnData(inFace, n, sample) ==
  LET rep0 == [NoLast EXCEPT !.op = "data", !.face = inFace, !.name = n,
                             !.hadIn = inFace \in pit[n].incoming]
      e == pit[n]
  IN IF e.present
     THEN IF inFace \in e.outgoing
          THEN LET re == UpdateFaceRtt(rtt[PrefixOf(n)], GetFibEntry(n), inFace, sample)
                   fe == UpdateStatus(GetFibEntry(n), inFace, "green")
                   s == SatisfyPending(e, inFace)
               IN [entry |-> s.entry, fibEntry |-> fe, rttEntry |-> re,
                   store |-> cs \cup {n}, sent |-> s.sent,
                   rep |-> [rep0 EXCEPT !.hadOut = TRUE]]
          ELSE [entry |-> e, fibEntry |-> GetFibEntry(n), rttEntry |-> rtt[PrefixOf(n)],
                store |-> OutgoingMissing(n), sent |-> <<>>,
                rep |-> rep0]
     ELSE [entry |-> e, fibEntry |-> GetFibEntry(n), rttEntry |-> rtt[PrefixOf(n)],
           store |-> Unsolicited(n).store, sent |-> <<>>,
           rep |-> [rep0 EXCEPT !.drop = Unsolicited(n).drop]]

\* ------------------------------------------------------------------ OnNack
\* A NACK handler that never waits for the other outgoing faces.
NackSuppressedNever(e) == FALSE

\* The NACK is suppressed while some outgoing-entry is not in-vain.
NackSuppressed(e) == ~AreAllOutgoingInVain(e)

OnNack(inFace, n, kind) ==
  LET rep0 == [NoLast EXCEPT !.op = kind, !.face = inFace, !.name = n]
      e == pit[n]
  IN IF ~e.present
     THEN [entry |-> e, fibEntry |-> GetFibEntry(n), sent |-> <<>>,
           rep |-> [rep0 EXCEPT !.drop = "nack-non-duplicate"]]
     ELSE IF inFace \notin e.outgoing
     THEN [entry |-> e, fibEntry |-> GetFibEntry(n), sent |-> <<>>, rep |-> rep0]
     ELSE
       LET e1 == SetWaitingInVain(e, inFace)
           e2 == IF kind = "nack-giveup" THEN RemoveIncoming(e1, inFace) ELSE e1
           fe == UpdateStatus(GetFibEntry(n), inFace, "yellow")
           rep == [rep0 EXCEPT !.hadOut = TRUE]
           p == PropagateInterest(e2, fe, inFace)
           g == GiveUpInterest(p.entry)
       IN IF e2.incoming = {}
          THEN [entry |-> e2, fibEntry |-> fe, sent |-> <<>>,
                rep |-> [rep EXCEPT !.drop = "after-satisfied"]]
          ELSE IF NackSuppressed(e2)
          THEN [entry |-> e2, fibEntry |-> fe, sent |-> <<>>,
                rep |-> [rep EXCEPT !.drop = "suppressed"]]
          ELSE IF p.propagated
          THEN [entry |-> p.entry, fibEntry |-> fe, sent |-> p.sent,
                rep |-> [rep EXCEPT !.attempts = 1, !.propagated = TRUE]]
          ELSE [entry |-> g.entry, fibEntry |-> fe, sent |-> g.sent,
                rep |-> [rep EXCEPT !.attempts = 1, !.drop = "no-faces",
                                    !.gaveUp = TRUE, !.gu = p.entry]]

\* ----------------------------------------------------------- face registry
\* NS_ASSERT_MSG: a build with assertions aborts when the condition is false, a
\* build without them goes on.  The values fatal can take after the assertion.
NsAssert(cond) == IF cond THEN {FALSE} ELSE BOOLEAN

\* Face objects are interchangeable until they are first added: a face never added
\* before is taken in the order of the face objects (a face added before may be
\* added again at any time).
Addable(f) == \A g \in Faces : g < f => faceId[g] # NoId

\* An AddFace that takes the id from the size of the face list.
AddFaceIdFromSize(f) ==
  /\ ~fatal
  /\ m_faceCounter < MaxFaceCounter
  /\ Addable(f)
  /\ faceId' = [faceId EXCEPT ![f] = Cardinality(Registered)]
  /\ handler' = handler \cup {f}
  /\ m_faces' = [m_faces EXCEPT ![f] = @ + 1]
  /\ m_faceCounter' = m_faceCounter + 1
  /\ sent' = <<>>
  /\ last' = [NoLast EXCEPT !.op = "addFace", !.face = f]
  /\ UNCHANGED <<pit, fib, rtt, cs, received, m_nacksEnabled, m_cacheUnsolicitedData, fatal>>

AddFace(f) ==
  /\ ~fatal
  /\ m_faceCounter < MaxFaceCounter
  /\ Addable(f)
  /\ faceId' = [faceId EXCEPT ![f] = m_faceCounter]
  /\ handler' = handler \cup {f}
  /\ m_faces' = [m_faces EXCEPT ![f] = @ + 1]
  /\ m_faceCounter' = m_faceCounter + 1
  /\ sent' = <<>>
  /\ last' = [NoLast EXCEPT !.op = "addFace", !.face = f]
  /\ UNCHANGED <<pit, fib, rtt, cs, received, m_nacksEnabled, m_cacheUnsolicitedData, fatal>>

\* The PIT after RemoveFace's two passes over it.
RemoveFacePit(f) ==
  [n \in Names |->
     IF ~pit[n].present THEN pit[n]
     ELSE LET e == RemoveAllReferencesToFace(pit[n], f)
          IN IF FibFaces(GetFibEntry(n)) = {f} THEN MarkErased(e) ELSE e]

\* m_faces.erase (m_faces.end ()), reached when find did not find the face and the
\* build has no assertions, is undefined: the list is left as it is, or loses one of
\* its elements, or the node crashes.
EraseEnd == {m_faces} \cup {[m_faces EXCEPT ![g] = @ - 1] : g \in Registered}

RemoveFace(f) ==
  /\ ~fatal
  /\ handler' = handler \ {f}
  /\ pit' = RemoveFacePit(f)
  /\ IF m_faces[f] > 0
     THEN m_faces' = [m_faces EXCEPT ![f] = @ - 1] /\ UNCHANGED fatal
     ELSE \/ fatal' = TRUE /\ UNCHANGED m_faces
          \/ /\ fatal' \in NsAssert(FALSE) \ {TRUE}
             /\ m_faces' \in EraseEnd
  /\ sent' = <<>>
  /\ last' = [NoLast EXCEPT !.op = "removeFace", !.face = f]
  /\ UNCHANGED <<m_faceCounter, faceId, fib, rtt, cs, received, m_nacksEnabled,
                 m_cacheUnsolicitedData>>

\* RemoveFace called as its precondition asks: on a face of the registry.
RemoveRegistered(f) == f \in Registered /\ RemoveFace(f)

GetFace(index) == {f \in Registered : faceId[f] = index}
GetNFaces == LET RECURSIVE Sum(_)
                 Sum(S) == IF S = {} THEN 0
                           ELSE LET x == CHOOSE y \in S : TRUE
                                IN m_faces[x] + Sum(S \ {x})
             IN Sum(Faces)

\* -------------------------------------------------------------- dispatcher
\* Receive is the callback of the faces in handler.  A packet from a face that is
\* down is dropped.
ReceiveDown(f) ==
  /\ ~fatal
  /\ f \in handler
  /\ sent' = <<>>
  /\ last' = [NoLast EXCEPT !.op = "down"]
  /\ UNCHANGED <<m_faces, m_faceCounter, faceId, handler, pit, fib, rtt, cs, received,
                 m_nacksEnabled, m_cacheUnsolicitedData, fatal>>

\* A packet whose header is neither an Interest nor a ContentObject: the exception
\* handler asserts false, then logs and returns.
ReceiveUnknown(f) ==
  /\ ~fatal
  /\ f \in handler
  /\ fatal' \in NsAssert(FALSE)
  /\ sent' = <<>>
  /\ last' = [NoLast EXCEPT !.op = "unknown"]
  /\ UNCHANGED <<m_faces, m_faceCounter, faceId, handler, pit, fib, rtt, cs, received,
                 m_nacksEnabled, m_cacheUnsolicitedData>>

\* An Interest packet that carries a payload fails the assertion on the packet size;
\* a build without assertions hands it to OnInterest like any other Interest (that
\* step is ReceiveInterest).
ReceiveInterestPayload(f) ==
  /\ ~fatal
  /\ f \in handler
  /\ TRUE \in NsAssert(FALSE)
  /\ fatal' = TRUE
  /\ sent' = <<>>
  /\ last' = [NoLast EXCEPT !.op = "interest-payload"]
  /\ UNCHANGED <<m_faces, m_faceCounter, faceId, handler, pit, fib, rtt, cs, received,
                 m_nacksEnabled, m_cacheUnsolicitedData>>

ReceiveInterest(f, n, nonce) ==
  /\ ~fatal
  /\ f \in handler
  /\ LET r == OnInterest(f, n, nonce)
     IN /\ r.entry.maxRetx <= MaxRetx
        /\ pit' = [pit EXCEPT ![n] = r.entry]
        /\ fib' = [fib EXCEPT ![PrefixOf(n)] = r.fibEntry]
        /\ sent' = r.sent
        /\ last' = r.rep
  /\ received' = received \cup {<<n, nonce>>}
  /\ UNCHANGED <<m_faces, m_faceCounter, faceId, handler, rtt, cs,
                 m_nacksEnabled, m_cacheUnsolicitedData, fatal>>

ReceiveNack(f, n, kind) ==
  /\ ~fatal
  /\ f \in handler
  /\ LET r == OnNack(f, n, kind)
     IN /\ pit' = [pit EXCEPT ![n] = r.entry]
        /\ fib' = [fib EXCEPT ![PrefixOf(n)] = r.fibEntry]
        /\ sent' = r.sent
        /\ last' = r.rep
  /\ UNCHANGED <<m_faces, m_faceCounter, faceId, handler, rtt, cs, received,
                 m_nacksEnabled, m_cacheUnsolicitedData, fatal>>

\* The face that the step before registered as incoming with a duplicate Interest
\* for name n; 0 if the step before was not one.
LateJoiner(n) ==
  IF last.op = "interest" /\ last.name = n /\ last.isDup /\ ~last.isRetx
  THEN last.face ELSE 0

ReceiveData(f, n, sample) ==
  /\ ~fatal
  /\ f \in handler
  /\ LET r == OnData(f, n, sample)
     IN /\ pit' = [pit EXCEPT ![n] = r.entry]
        /\ fib' = [fib EXCEPT ![PrefixOf(n)] = r.fibEntry]
        /\ rtt' = [rtt EXCEPT ![PrefixOf(n)] = r.rttEntry]
        /\ cs' = r.store
        /\ sent' = r.sent
        /\ last' = [r.rep EXCEPT !.joined = LateJoiner(n)]
  /\ UNCHANGED <<m_faces, m_faceCounter, faceId, handler, received,
                 m_nacksEnabled, m_cacheUnsolicitedData, fatal>>

\* ------------------------------------------------------------ environment
\* Routing adds a registered face to the FIB entry of a name.
FibAdd(p, f, status) ==
  /\ ~fatal
  /\ f \in Registered
  /\ fib[p][f] = "none"
  /\ fib' = [fib EXCEPT ![p][f] = status]
  /\ sent' = <<>>
  /\ last' = [NoLast EXCEPT !.op = "fibAdd"]
  /\ UNCHANGED <<m_faces, m_faceCounter, faceId, handler, pit, rtt, cs, received,
                 m_nacksEnabled, m_cacheUnsolicitedData, fatal>>

\* The PIT removes an entry whose lifetime or pruning timeout has run out.
PitExpire(n) ==
  /\ ~fatal
  /\ pit[n].present
  /\ pit' = [pit EXCEPT ![n] = NoEntry]
  /\ sent' = <<>>
  /\ last' = [NoLast EXCEPT !.op = "expire"]
  /\ UNCHANGED <<m_faces, m_faceCounter, faceId, handler, fib, rtt, cs, received,
                 m_nacksEnabled, m_cacheUnsolicitedData, fatal>>

\* The content store evicts a name.
CsEvict(n) ==
  /\ ~fatal
  /\ n \in cs
  /\ cs' = cs \ {n}
  /\ sent' = <<>>
  /\ last' = [NoLast EXCEPT !.op = "evict"]
  /\ UNCHANGED <<m_faces, m_faceCounter, faceId, handler, pit, fib, rtt, received,
                 m_nacksEnabled, m_cacheUnsolicitedData, fatal>>

\* ----------------------------------------------------------- specification
Init ==
  /\ m_faces = [f \in Faces |-> 0]
  /\ m_faceCounter = 0
  /\ faceId = [f \in Faces |-> NoId]
  /\ handler = {}
  /\ pit = [n \in Names |-> NoEntry]
  /\ fib = [p \in Prefixes |-> [f \in Faces |-> "none"]]
  /\ rtt = [p \in Prefixes |-> [f \in Faces |-> 0]]
  /\ cs = {}
  /\ received = {}
  /\ m_nacksEnabled \in BOOLEAN
  /\ m_cacheUnsolicitedData \in BOOLEAN
  /\ sent = <<>>
  /\ last = NoLast
  /\ fatal = FALSE

\* The node from its construction on.  Its Interests carry one nonce: an Interest
\* is new or a duplicate (SpecTraffic adds the Interests with one more nonce).
\* Its callers keep to RemoveFace's precondition (SpecMisuse adds the calls that do
\* not).
FirstNonce == {1}

Next ==
  \/ \E f \in Faces : AddFace(f)
  \/ \E f \in Faces : RemoveRegistered(f)
  \/ \E f \in Faces : ReceiveDown(f)
  \/ \E f \in Faces : ReceiveUnknown(f)
  \/ \E f \in Faces : ReceiveInterestPayload(f)
  \/ \E f \in Faces, n \in Names, nonce \in FirstNonce : ReceiveInterest(f, n, nonce)
  \/ \E f \in Faces, n \in Names, sample \in 1 .. MaxRttSample : ReceiveData(f, n, sample)
  \/ \E p \in Prefixes, f \in Faces, status \in {"yellow", "red"} : FibAdd(p, f, status)
  \/ \E n \in Names : PitExpire(n)
  \/ \E n \in Names : CsEvict(n)

Spec == Init /\ [][Next]_vars

\* A node in service: every face object has been added once, in order, and routing
\* has put up to MaxUpstream faces, from some face upwards, into every FIB entry
\* (the faces are interchangeable, so which ones is immaterial), the last of them
\* possibly red.
InitTraffic ==
  /\ m_faces = [f \in Faces |-> 1]
  /\ m_faceCounter = NumFaces
  /\ faceId = [f \in Faces |-> f - 1]
  /\ handler = Faces
  /\ pit = [n \in Names |-> NoEntry]
  /\ \E k \in NumFaces - MaxUpstream + 1 .. NumFaces + 1, lastStatus \in {"yellow", "red"} :
       fib = [p \in Prefixes |->
                [f \in Faces |-> IF f < k THEN "none"
                                 ELSE IF f = NumFaces THEN lastStatus
                                 ELSE "yellow"]]
  /\ rtt = [p \in Prefixes |-> [f \in Faces |-> 0]]
  /\ cs = {}
  /\ received = {}
  /\ m_nacksEnabled \in BOOLEAN
  /\ m_cacheUnsolicitedData \in BOOLEAN
  /\ sent = <<>>
  /\ last = NoLast
  /\ fatal = FALSE

\* Interest and Data traffic of one name through a node in service.
TrafficNames == {1}

NextTraffic ==
  \/ \E f \in Faces : ReceiveDown(f)
  \/ \E f \in Faces, n \in TrafficNames, nonce \in Nonces : ReceiveInterest(f, n, nonce)
  \/ \E f \in Faces, n \in TrafficNames, sample \in 1 .. MaxRttSample : ReceiveData(f, n, sample)
  \/ \E n \in TrafficNames : PitExpire(n)
  \/ \E n \in TrafficNames : CsEvict(n)

SpecTraffic == InitTraffic /\ [][NextTraffic]_vars

\* The node with callers that also remove faces that are not registered.
NextMisuse ==
  \/ \E f \in Faces : AddFace(f)
  \/ \E f \in Faces : RemoveFace(f)
  \/ \E f \in Faces, n \in Names, nonce \in FirstNonce : ReceiveInterest(f, n, nonce)
  \/ \E p \in Prefixes, f \in Faces, status \in {"yellow", "red"} : FibAdd(p, f, status)

SpecMisuse == Init /\ [][NextMisuse]_vars

\* A node in service whose neighbours answer its Interests with NACKs.
NackKinds == {"nack-loop", "nack-giveup"}

NextNack ==
  \/ \E f \in Faces, n \in TrafficNames, nonce \in Nonces : ReceiveInterest(f, n, nonce)
  \/ \E f \in Faces, n \in TrafficNames, kind \in NackKinds : ReceiveNack(f, n, kind)
  \/ \E n \in TrafficNames : PitExpire(n)

SpecNack == InitTraffic /\ [][NextNack]_vars

\* ================================================================== claims
\* The kinds of packet that answer an Interest.
Answers == {"data", "nack-loop", "nack-giveup"}
\* FIB faces of name n that are not red, other than face f.
Candidates(n, f) == {g \in Faces : GetFibEntry(n)[g] \notin {"none", "red"} /\ g # f}
\* The sequence s holds one packet of the kind for each face of S and nothing else.
OneEach(s, S, kind) ==
  /\ Len(s) = Cardinality(S)
  /\ \A g \in Faces : Count(s, g, kind) = IF g \in S THEN 1 ELSE 0

\* The step is the arrival of the Interest with this nonce, or of the Data with this
\* RTT sample, on face StepFace for name StepName.
StepFace == last'.face
StepName == last'.name
InterestStep(nonce) ==
  last'.op = "interest" /\ ReceiveInterest(StepFace, StepName, nonce)
DataStep(sample) ==
  last'.op = "data" /\ ReceiveData(StepFace, StepName, sample)

\* ---------------------------------------------------------------------- C1
\* C1 (as amended): an Interest whose nonce is in the seen-nonce set of the name's
\* PIT entry when it arrives, on whichever face, is reported duplicated and is not
\* propagated (no propagation attempt, no Interest sent, the outgoing set and the FIB
\* as before); with NACKs enabled exactly one loop NACK goes to the arriving face,
\* with NACKs disabled nothing is sent.
C1_DuplicateIsDropped ==
  [][\A nonce \in Nonces :
       (InterestStep(nonce) /\ pit[StepName].present /\ nonce \in pit[StepName].nonces)
       => /\ last'.drop = "duplicated"
          /\ last'.attempts = 0
          /\ ~last'.propagated
          /\ pit'[StepName].outgoing = pit[StepName].outgoing
          /\ pit'[StepName].retx = pit[StepName].retx
          /\ fib' = fib
          /\ sent' = IF m_nacksEnabled
                     THEN <<[face |-> StepFace, kind |-> "nack-loop"]>>
                     ELSE <<>>]_vars

\* C1 as stated: every Interest whose (name, nonce) pair the node has received
\* before is reported duplicated and not propagated.
C1_AsStated ==
  [][\A nonce \in Nonces :
       (InterestStep(nonce) /\ <<StepName, nonce>> \in received)
       => /\ last'.drop = "duplicated"
          /\ ~last'.propagated
          /\ sent' = IF m_nacksEnabled
                     THEN <<[face |-> StepFace, kind |-> "nack-loop"]>>
                     ELSE <<>>]_vars

\* A duplicate has arrived on a face that had no incoming-entry, NACKs enabled.
C1_Witness ==
  /\ last.op = "interest"
  /\ last.isDup
  /\ ~last.isRetx
  /\ m_nacksEnabled

\* ---------------------------------------------------------------------- C2
\* C2 (as amended): Data arriving on a face that has an outgoing-entry in the
\* name's PIT entry and is not itself one of the incoming faces is sent exactly
\* once to each incoming face and to no other face, and leaves the entry erased
\* with its incoming and its outgoing set empty.
C2_FanOut ==
  [][\A sample \in 1 .. MaxRttSample :
       (/\ DataStep(sample)
        /\ pit[StepName].present
        /\ pit[StepName].incoming # {}
        /\ StepFace \in pit[StepName].outgoing
        /\ StepFace \notin pit[StepName].incoming)
       => /\ OneEach(sent', pit[StepName].incoming, "data")
          /\ pit'[StepName].erased
          /\ pit'[StepName].incoming = {}
          /\ pit'[StepName].outgoing = {}]_vars

\* C2 as stated: Data whose name matches a PIT entry with incoming faces is sent
\* once to each of them and leaves the entry erased and empty.
C2_AsStated ==
  [][\A sample \in 1 .. MaxRttSample :
       (DataStep(sample) /\ pit[StepName].present /\ pit[StepName].incoming # {})
       => /\ OneEach(sent', pit[StepName].incoming, "data")
          /\ pit'[StepName].erased
          /\ pit'[StepName].incoming = {}
          /\ pit'[StepName].outgoing = {}]_vars

\* Data has arrived on a face with an outgoing-entry and went to three faces.
C2_Witness ==
  /\ last.op = "data"
  /\ last.hadOut
  /\ Len(sent) = 3
  /\ \A i \in 1 .. Len(sent) : sent[i].kind = "data" /\ sent[i].face # last.face

\* ---------------------------------------------------------------------- C3
\* C3 (as amended): an Interest whose nonce is not in the seen-nonce set of the
\* name's PIT entry and which is not dropped for the PIT limit adds exactly that one
\* nonce to the set.  Unless it is satisfied from the content store or suppressed, it
\* is then either propagated, to non-red FIB faces other than the arriving face
\* only, or reported no-faces and given up on (a give-up NACK to every incoming
\* face when NACKs are enabled).  It is never propagated when the FIB has no non-red
\* face other than the arriving one, and always when it has one that is not yet an
\* outgoing face.
C3_NewNonce ==
  [][\A nonce \in Nonces :
       (/\ InterestStep(nonce)
        /\ nonce \notin pit[StepName].nonces
        /\ last'.drop # "pit-limit")
       => /\ pit'[StepName].nonces = pit[StepName].nonces \cup {nonce}
          /\ Cardinality(pit'[StepName].nonces) = Cardinality(pit[StepName].nonces) + 1
          /\ (~last'.hit /\ last'.drop # "suppressed")
             => /\ last'.propagated
                   => /\ sent' # <<>>
                      /\ \A i \in 1 .. Len(sent') :
                           sent'[i].kind = "interest" /\ sent'[i].face \in Candidates(StepName, StepFace)
                /\ ~last'.propagated
                   => /\ last'.drop = "no-faces"
                      /\ last'.gaveUp
                      /\ m_nacksEnabled
                         => OneEach(sent', last'.gu.incoming, "nack-giveup")
                /\ Candidates(StepName, StepFace) = {} => ~last'.propagated
                /\ Candidates(StepName, StepFace) \ pit[StepName].outgoing # {} => last'.propagated]_vars

\* C3 as stated: an Interest whose (name, nonce) pair was not received before adds
\* one nonce to the seen-nonce set and is propagated when the FIB has a non-red face
\* other than the arriving one, and given up on when it has none.
C3_AsStated ==
  [][\A nonce \in Nonces :
       (InterestStep(nonce) /\ <<StepName, nonce>> \notin received)
       => /\ Cardinality(pit'[StepName].nonces) = Cardinality(pit[StepName].nonces) + 1
          /\ Candidates(StepName, StepFace) # {} => last'.propagated
          /\ Candidates(StepName, StepFace) = {} => last'.gaveUp]_vars

\* A new Interest with an unseen nonce has been propagated.
C3_Witness ==
  /\ last.op = "interest"
  /\ ~last.isDup
  /\ last.isNew
  /\ last.propagated
  /\ sent # <<>>

\* ---------------------------------------------------------------------- C4
\* C4: with NACKs enabled every Interest received on an up face is answered on that
\* face: at once with Data or a NACK, or it is left pending in the incoming set of
\* the name's PIT entry, to be answered when Data arrives.
C4_EveryInterestAnswered ==
  (m_nacksEnabled /\ last.op = "interest")
  => \/ \E i \in SentTo(last.face) : sent[i].kind \in Answers
     \/ last.face \in pit[last.name].incoming

\* ---------------------------------------------------------------------- C5
\* C5: after RemoveFace(f) has returned, f is in no PIT entry's incoming or outgoing
\* set and in no FIB entry's face metrics, and every PIT entry whose FIB entry had
\* no other face is erased.
C5_RemoveFacePurges ==
  (last.op = "removeFace" /\ ~fatal)
  => /\ \A n \in Names : last.face \notin pit[n].incoming \cup pit[n].outgoing
     /\ \A p \in Prefixes : fib[p][last.face] = "none"
     /\ \A n \in Names :
          (pit[n].present /\ FibFaces(GetFibEntry(n)) = {last.face})
          => pit[n].erased

\* ---------------------------------------------------------------------- C6
\* C6: every face in the incoming or the outgoing set of a PIT entry is registered.
C6_PitFacesRegistered ==
  \A n \in Names : pit[n].incoming \cup pit[n].outgoing \subseteq Registered

\* ---------------------------------------------------------------------- C7
\* C7: give-up with NACKs enabled sends exactly one give-up NACK to each face of the
\* entry's incoming set and to no other face, and leaves the entry erased with empty
\* incoming and outgoing sets; with NACKs disabled it sends nothing and leaves the
\* incoming set, the outgoing set and the pending status as they were.
C7_GiveUp ==
  last.gaveUp
  => LET e == pit[last.name]
     IN /\ last.gu.present /\ e.present
        /\ m_nacksEnabled
           => /\ OneEach(sent, last.gu.incoming, "nack-giveup")
              /\ e.erased
              /\ e.incoming = {}
              /\ e.outgoing = {}
        /\ ~m_nacksEnabled
           => /\ sent = <<>>
              /\ e.incoming = last.gu.incoming
              /\ e.outgoing = last.gu.outgoing
              /\ e.erased = last.gu.erased
              /\ ~e.erased

\* Give-up with NACKs enabled for an entry with two incoming faces and an outgoing
\* face.
C7_Witness ==
  /\ last.gaveUp
  /\ m_nacksEnabled
  /\ Cardinality(last.gu.incoming) >= 2
  /\ last.gu.outgoing # {}

\* ---------------------------------------------------------------------- C8
\* C8 (as amended): an Interest with a new nonce from a face that has an
\* incoming-entry is a retransmission and is never suppressed; unless it is
\* satisfied from the content store, propagation is attempted, and it succeeds,
\* also to faces that already have an outgoing-entry, whenever the FIB has a non-red
\* face other than the arriving one.
C8_Retransmission ==
  [][\A nonce \in Nonces :
       (/\ InterestStep(nonce)
        /\ pit[StepName].present
        /\ StepFace \in pit[StepName].incoming
        /\ nonce \notin pit[StepName].nonces)
       => /\ last'.isRetx
          /\ last'.drop # "suppressed"
          /\ ~last'.hit
             => /\ last'.attempts >= 1
                /\ Candidates(StepName, StepFace) # {} => last'.propagated
                /\ Candidates(StepName, StepFace) = {} => last'.gaveUp]_vars

\* C8 as stated: such an Interest is a retransmission, is not suppressed and is
\* propagated.
C8_AsStated ==
  [][\A nonce \in Nonces :
       (/\ InterestStep(nonce)
        /\ pit[StepName].present
        /\ StepFace \in pit[StepName].incoming
        /\ nonce \notin pit[StepName].nonces)
       => /\ last'.isRetx
          /\ last'.drop # "suppressed"
          /\ last'.propagated]_vars

\* A retransmission has been propagated, on the second attempt, to a face that
\* already had an outgoing-entry.
C8_Witness ==
  /\ last.op = "interest"
  /\ last.isRetx
  /\ ~last.isDup
  /\ last.propagated
  /\ last.attempts = 2
  /\ \E i \in 1 .. Len(sent) : pit[last.name].retx[sent[i].face] > 0

\* ---------------------------------------------------------------------- C9
\* C9: Data for a name without a PIT entry is put into the content store if and only
\* if unsolicited caching is enabled; when it is disabled the content store is
\* unchanged, nothing is sent and unsolicited is reported.  PIT and FIB do not change
\* in either case.
C9_UnsolicitedData ==
  [][\A sample \in 1 .. MaxRttSample :
       (DataStep(sample) /\ ~pit[StepName].present)
       => /\ m_cacheUnsolicitedData => cs' = cs \cup {StepName}
          /\ ~m_cacheUnsolicitedData
             => cs' = cs /\ sent' = <<>> /\ last'.drop = "unsolicited"
          /\ sent' = <<>>
          /\ pit' = pit
          /\ fib' = fib
          /\ rtt' = rtt]_vars

\* Unsolicited Data has been dropped.
C9_Witness ==
  /\ last.op = "data"
  /\ last.drop = "unsolicited"
  /\ ~m_cacheUnsolicitedData
  /\ ~pit[last.name].present

\* --------------------------------------------------------------------- C10
\* C10: a non-duplicate Interest that hits the content store has the cached Data
\* sent to the requesting face (once), sends no Interest, makes no propagation
\* attempt, creates no outgoing-entry, and leaves every FIB face metric (status and
\* RTT) as it was.
C10_CacheHit ==
  [][\A nonce \in Nonces :
       (/\ InterestStep(nonce)
        /\ StepName \in cs
        /\ nonce \notin pit[StepName].nonces
        /\ last'.drop # "pit-limit")
       => /\ last'.hit
          /\ Count(sent', StepFace, "data") = 1
          /\ \A i \in 1 .. Len(sent') : sent'[i].kind = "data"
          /\ last'.attempts = 0
          /\ pit'[StepName].outgoing = {}
          /\ fib' = fib
          /\ rtt' = rtt]_vars

\* An Interest from a face that had an outgoing-entry has been satisfied from the
\* content store.
C10_Witness ==
  /\ last.op = "interest"
  /\ last.hit
  /\ last.hadOut
  /\ sent # <<>>

\* --------------------------------------------------------------------- C11
\* C11: a packet of unrecognized header type on an up face is dropped without a
\* fatal state and leaves PIT, FIB, content store and face registry as they were;
\* and no packet received from the network, of whatever kind, makes the node fatal.
C11_NoPacketIsFatal ==
  [][/\ last'.op = "unknown"
        => ~fatal' /\ UNCHANGED <<pit, fib, rtt, cs, m_faces, m_faceCounter, handler>>
     /\ last'.op \in {"unknown", "interest", "interest-payload", "data", "down",
                      "nack-loop", "nack-giveup"}
        => ~fatal']_vars

\* --------------------------------------------------------------------- C12
\* C12: the id AddFace returns is the face counter before the call and is greater
\* than every id handed out before (the ids the face objects hold, also those of
\* removed faces); and any two distinct registered faces have distinct ids.
C12_IdsIncrease ==
  [][/\ (last'.op = "addFace" /\ AddFace(last'.face))
        => /\ faceId'[last'.face] = m_faceCounter
           /\ \A g \in Faces : faceId[g] < faceId'[last'.face]
           /\ m_faceCounter' > faceId'[last'.face]
     /\ \A g, h \in Faces :
          (g # h /\ m_faces'[g] > 0 /\ m_faces'[h] > 0) => faceId'[g] # faceId'[h]]_vars

\* A face has been added after the only face added before it was removed, and did
\* not get that face's id again.
C12_Witness ==
  /\ last.op = "addFace"
  /\ m_faceCounter = MaxFaceCounter
  /\ faceId[last.face] = MaxFaceCounter - 1
  /\ Cardinality(Registered) = 1
  /\ m_faces[last.face] = 1

\* --------------------------------------------------------------------- C13
\* C13: RemoveFace of a face that is not in the registry is fatal and changes
\* nothing: no PIT entry loses a face or is marked erased, the face's receive
\* callback stays and the registry is as before.
C13_FailedRemoveChangesNothing ==
  [][(last'.op = "removeFace" /\ m_faces[last'.face] = 0 /\ RemoveFace(last'.face))
     => /\ fatal'
        /\ pit' = pit
        /\ handler' = handler
        /\ m_faces' = m_faces]_vars

\* --------------------------------------------------------------------- C14
\* C14: when RemoveFace(f) of a registered face has completed, f's receive callback
\* is revoked and the other faces keep theirs, GetNFaces is one less, and GetFace
\* of f's id returns no face; a packet is dispatched only from a face that has the
\* callback, and a face gets the callback only by AddFace.
C14_RemovedFaceIsGone ==
  [][/\ \A f \in Faces :
          (last'.op = "removeFace" /\ last'.face = f /\ RemoveRegistered(f))
          => /\ handler' = handler \ {f}
             /\ GetNFaces' = GetNFaces - 1
             /\ GetFace(faceId[f])' = {}
     /\ \A nonce \in Nonces : InterestStep(nonce) => StepFace \in handler
     /\ \A sample \in 1 .. MaxRttSample : DataStep(sample) => StepFace \in handler
     /\ \A g \in Faces :
          (g \notin handler /\ g \in handler') => last'.op = "addFace" /\ last'.face = g]_vars

\* --------------------------------------------------------------------- C15
\* C15: every PIT entry that is marked erased has an empty incoming set and an
\* empty outgoing set.
C15_ErasedIsEmpty ==
  \A n \in Names :
    (pit[n].present /\ pit[n].erased) => pit[n].incoming = {} /\ pit[n].outgoing = {}

\* --------------------------------------------------------------------- C16
\* C16: an Interest is suppressed only when the name's PIT entry has at least one
\* outgoing-entry, and a suppressed Interest is sent to no face.
C16_SuppressedHasOutgoing ==
  [][\A nonce \in Nonces :
       (InterestStep(nonce) /\ last'.drop = "suppressed")
       => /\ pit[StepName].outgoing # {}
          /\ pit'[StepName].outgoing # {}
          /\ sent' = <<>>]_vars

C18_OutgoingEntryMissing ==
  [][\A sample \in 1 .. MaxRttSample :
       (/\ DataStep(sample)
        /\ pit[StepName].present
        /\ StepFace \notin pit[StepName].outgoing)
       => /\ sent' = <<>>
          /\ pit' = pit
          /\ fib' = fib
          /\ rtt' = rtt
          /\ m_cacheUnsolicitedData => cs' = cs \cup {StepName}
          /\ ~m_cacheUnsolicitedData => cs' = cs]_vars

\* Data has arrived on a face without an outgoing-entry for a pending entry that
\* has incoming and outgoing faces, and was cached.
C18_Witness ==
  /\ last.op = "data"
  /\ ~last.hadOut
  /\ pit[last.name].present
  /\ pit[last.name].incoming # {}
  /\ pit[last.name].outgoing # {}
  /\ last.face \notin pit[last.name].outgoing
  /\ sent = <<>>
  /\ m_cacheUnsolicitedData
  /\ last.name \in cs

\* --------------------------------------------------------------------- C19
\* C19: the face a Data packet arrives on is sent no copy of it by that step, also
\* when it is in the incoming set of the PIT entry: when it has an outgoing-entry
\* the Data goes once to each face of the incoming set other than the arriving one
\* and to no other face, and the arriving face is not in the incoming set afterwards.
C19_ArrivingFaceGetsNoCopy ==
  [][\A sample \in 1 .. MaxRttSample :
       DataStep(sample)
       => /\ Count(sent', StepFace, "data") = 0
          /\ (pit[StepName].present /\ StepFace \in pit[StepName].outgoing)
             => /\ OneEach(sent', pit[StepName].incoming \ {StepFace}, "data")
                /\ StepFace \notin pit'[StepName].incoming]_vars

\* Data has arrived on a face that was both an incoming and an outgoing face of the
\* entry, and went to the other incoming faces only.
C19_Witness ==
  /\ last.op = "data"
  /\ last.hadIn
  /\ last.hadOut
  /\ sent # <<>>
  /\ Count(sent, last.face, "data") = 0

\* --------------------------------------------------------------------- C20
\* C20 (as stated): an Interest whose nonce was already seen, from a face without an
\* incoming-entry, puts that face into the incoming set of the PIT entry before it is
\* dropped as duplicated, and Data for the name that then arrives on a face with an
\* outgoing-entry is also sent to that face.
C20_AsStated ==
  [][/\ \A nonce \in Nonces :
          (/\ InterestStep(nonce)
           /\ pit[StepName].present
           /\ IsNonceSeen(pit[StepName], nonce)
           /\ StepFace \notin pit[StepName].incoming)
          => /\ last'.drop = "duplicated"
             /\ StepFace \in pit'[StepName].incoming
     /\ \A sample \in 1 .. MaxRttSample :
          (/\ DataStep(sample)
           /\ LateJoiner(StepName) # 0
           /\ StepFace \in pit[StepName].outgoing)
          => Count(sent', LateJoiner(StepName), "data") = 1]_vars

\* C20 (as amended): an Interest whose nonce was already seen, from a face without an
\* incoming-entry, puts that face into the incoming set of the PIT entry before it is
\* dropped as duplicated, and no Interest is sent; Data for the name that arrives on
\* a face with an outgoing-entry is sent once to every face that is in the incoming
\* set at that moment other than the face the Data arrives on, so the face the
\* duplicate registered gets the Data unless the Data arrives on that very face.
C20_DuplicateRegistersRequester ==
  [][/\ \A nonce \in Nonces :
          (/\ InterestStep(nonce)
           /\ pit[StepName].present
           /\ IsNonceSeen(pit[StepName], nonce)
           /\ StepFace \notin pit[StepName].incoming)
          => /\ last'.drop = "duplicated"
             /\ StepFace \in pit'[StepName].incoming
             /\ \A g \in Faces : Count(sent', g, "interest") = 0
     /\ \A sample \in 1 .. MaxRttSample :
          (/\ DataStep(sample)
           /\ pit[StepName].present
           /\ StepFace \in pit[StepName].outgoing)
          => /\ \A g \in pit[StepName].incoming \ {StepFace} :
                  Count(sent', g, "data") = 1
             /\ LateJoiner(StepName) \notin {0, StepFace}
                => Count(sent', LateJoiner(StepName), "data") = 1
             /\ LateJoiner(StepName) = StepFace
                => Count(sent', LateJoiner(StepName), "data") = 0]_vars

\* A duplicate registered a face, and the Data that arrived next on another face,
\* one with an outgoing-entry, was sent to it.
C20_Witness ==
  /\ last.op = "data"
  /\ last.hadOut
  /\ last.joined # 0
  /\ last.joined # last.face
  /\ Count(sent, last.joined, "data") = 1

\* --------------------------------------------------------------------- C21
\* C21: an Interest with an unseen nonce for a name that is not in the content
\* store, arriving from a face that has an outgoing-entry in the PIT entry, is not
\* suppressed: the FIB status of that face becomes yellow, the FIB status of every
\* other face is as before, and propagation is attempted, whether or not the face
\* already had an incoming-entry.
C21_OutFaceNotSuppressed ==
  [][\A nonce \in Nonces :
       (/\ InterestStep(nonce)
        /\ pit[StepName].present
        /\ ~IsNonceSeen(pit[StepName], nonce)
        /\ StepName \notin cs
        /\ StepFace \in pit[StepName].outgoing)
       => /\ last'.drop # "suppressed"
          /\ last'.attempts >= 1
          /\ fib'[PrefixOf(StepName)][StepFace] = "yellow"
          /\ \A p \in Prefixes, g \in Faces :
               (p # PrefixOf(StepName) \/ g # StepFace) => fib'[p][g] = fib[p][g]]_vars

\* An Interest that is neither new nor a retransmission came from a face with an
\* outgoing-entry, went on to a propagation attempt, and the face is yellow.
C21_Witness ==
  /\ last.op = "interest"
  /\ last.hadOut
  /\ ~last.isDup
  /\ ~last.hit
  /\ ~last.isNew
  /\ ~last.isRetx
  /\ last.attempts >= 1
  /\ GetFibEntry(last.name)[last.face] = "yellow"

\* --------------------------------------------------------------------- C22
\* The step is the arrival of a NACK of this kind on face StepFace for name StepName.
NackStep(kind) ==
  last'.op = kind /\ ReceiveNack(StepFace, StepName, kind)
\* The incoming set once a give-up NACK has taken the arriving face out of it.
IncomingAfterNack(kind) ==
  IF kind = "nack-giveup" THEN pit[StepName].incoming \ {StepFace}
  ELSE pit[StepName].incoming
\* The in-vain marks once the outgoing-entry of the arriving face is marked.
InVainAfterNack == pit[StepName].inVain \cup {StepFace}

\* C22: a loop or give-up NACK arrives on a face with an outgoing-entry and the
\* incoming set is not empty after a give-up NACK has removed the arriving face:
\* if, with the arriving face's outgoing-entry marked in-vain, some outgoing-entry is
\* not in-vain, the NACK is reported suppressed, nothing is sent and no propagation
\* is attempted; if all are in-vain, propagation is attempted once and what it sends
\* are Interests; give-up is invoked exactly when that attempt fails, reported with
\* no-faces, for the incoming faces that are left: with NACKs enabled each of them
\* gets one give-up NACK, with NACKs disabled nothing is sent.
C22_NackReception ==
  [][\A kind \in NackKinds :
       (/\ NackStep(kind)
        /\ pit[StepName].present
        /\ StepFace \in pit[StepName].outgoing
        /\ IncomingAfterNack(kind) # {})
       => /\ ~(pit[StepName].outgoing \subseteq InVainAfterNack)
             => /\ last'.drop = "suppressed"
                /\ last'.attempts = 0
                /\ ~last'.gaveUp
                /\ sent' = <<>>
                /\ pit'[StepName].outgoing = pit[StepName].outgoing
                /\ pit'[StepName].incoming = IncomingAfterNack(kind)
          /\ pit[StepName].outgoing \subseteq InVainAfterNack
             => /\ last'.attempts = 1
                /\ last'.gaveUp = ~last'.propagated
                /\ last'.propagated
                   => /\ sent' # <<>>
                      /\ \A i \in 1 .. Len(sent') : sent'[i].kind = "interest"
                      /\ pit'[StepName].incoming = IncomingAfterNack(kind)
                /\ ~last'.propagated
                   => /\ last'.drop = "no-faces"
                      /\ last'.gu.incoming = IncomingAfterNack(kind)
                      /\ m_nacksEnabled
                         => OneEach(sent', IncomingAfterNack(kind), "nack-giveup")
                      /\ ~m_nacksEnabled => sent' = <<>>]_vars

\* A NACK found every outgoing-entry of an entry with two outgoing faces in-vain,
\* one propagation was attempted and failed, and each incoming face got a give-up
\* NACK.
C22_Witness ==
  /\ last.op \in NackKinds
  /\ last.hadOut
  /\ last.attempts = 1
  /\ ~last.propagated
  /\ last.gaveUp
  /\ Cardinality(last.gu.outgoing) >= 2
  /\ AreAllOutgoingInVain(last.gu)
  /\ last.gu.incoming # {}
  /\ m_nacksEnabled
  /\ OneEach(sent, last.gu.incoming, "nack-giveup")

\* --------------------------------------------------------------------- C23
\* The first propagation attempt for the arriving Interest finds no face.
FirstAttemptFails == Eligible(pit[StepName], GetFibEntry(StepName), StepFace) = {}

\* C23: for one Interest propagation is attempted at most twice; it is attempted a
\* second time exactly when the first attempt failed and the Interest is a
\* retransmission, and exactly then the retransmission allowance of the PIT entry is
\* one more than before; an Interest that is still not propagated is reported
\* no-faces and given up on once (with NACKs enabled one give-up NACK to each
\* incoming face, with NACKs disabled nothing), and a propagated one is not.
C23_AtMostTwoAttempts ==
  [][\A nonce \in Nonces :
       InterestStep(nonce)
       => /\ last'.attempts \in 0 .. 2
          /\ last'.attempts = 2
             <=> (last'.attempts >= 1 /\ FirstAttemptFails /\ last'.isRetx)
          /\ pit'[StepName].maxRetx =
               pit[StepName].maxRetx + (IF last'.attempts = 2 THEN 1 ELSE 0)
          /\ last'.gaveUp <=> (last'.attempts >= 1 /\ ~last'.propagated)
          /\ last'.gaveUp
             => /\ last'.drop = "no-faces"
                /\ m_nacksEnabled => OneEach(sent', last'.gu.incoming, "nack-giveup")
                /\ ~m_nacksEnabled => sent' = <<>>
          /\ last'.propagated
             => /\ last'.drop = "none"
                /\ sent' # <<>>
                /\ \A i \in 1 .. Len(sent') : sent'[i].kind = "interest"]_vars

\* A retransmission was tried twice with one more allowance, was not propagated and
\* was given up on.
C23_Witness ==
  /\ last.op = "interest"
  /\ last.isRetx
  /\ last.attempts = 2
  /\ ~last.propagated
  /\ last.drop = "no-faces"
  /\ last.gaveUp
  /\ last.gu.maxRetx = 1
  /\ last.gu.incoming # {}

====
